---- MODULE Spec2Model ----
(***************************************************************************)
(* Model of the server ACL bootstrap of consul-k8s                         *)
(* (control-plane/subcommand/server-acl-init/servers.go):                  *)
(* bootstrapServers, bootstrapACLs, setServerTokens, setServerPolicy and   *)
(* isNoLeaderErr, run by one sequential process against a Consul cluster   *)
(* and a Kubernetes secret, with crashes and re-runs of the job.           *)
(*                                                                         *)
(* Strings that the code only tests with strings.Contains are modelled as  *)
(* the set of the tested fragments they contain; the nil error is the      *)
(* empty set.  Secret IDs are natural numbers, 0 standing for "".          *)
(***************************************************************************)
EXTENDS Naturals, Sequences, FiniteSets

\* ---------------------------------------------------------------- bounds
MaxServers == 2      \* longest server address list
MaxFails   == 1      \* transient failures of external calls per run
MaxRuns    == 2      \* runs of the job (first run plus re-runs / restarts)
MaxIds     == 4      \* secret IDs the cluster mints during the runs

Addrs == {"10.0.0.1", "10.0.0.2"}

VARIABLES
  \* the Consul cluster
  aclRoot,             \* SecretID of the cluster's bootstrap token, 0 = ACLs not bootstrapped
  policies,            \* set of ACL policies [Name, Rules]
  tokens,              \* the cluster's ACL tokens, in the order /v1/acl/tokens lists them
  agentTokens,         \* per server address: the agent token set on that server (0 = none)
  nextId,              \* next SecretID the cluster mints
  \* the Kubernetes secret store
  secret,              \* content of the secret bootTokenSecretName, 0 = no such secret
  \* the job's configuration and input
  serverAddresses,     \* the server address list
  flagSetServerTokens, \* c.flagSetServerTokens
  rulesErr,            \* TRUE when c.agentRules() fails to render
  clientErr,           \* TRUE when consul.NewClient fails on the job's client configuration
  badHost,             \* index of the server whose client cannot be created (0 = none)
  \* the running process
  pc,                  \* position of the process
  bootstrapToken,      \* bootstrapServers' bootstrapToken
  existingTokens,      \* setServerTokens' existingTokens
  host,                \* index of the server the loop of setServerTokens is at
  tokenSecretID,       \* setServerTokens' tokenSecretID
  retToken, retErr,    \* what bootstrapServers returned
  lastErr,             \* error of the last external call's response (nil = {})
  opErr,               \* error the last attempt handed to untilSucceeds returned
  \* history
  run,                 \* number of the current run
  givenToken,          \* the bootstrapToken the current run was called with
  rootAtStart,         \* the cluster's bootstrap token when the current run started
  bootResp,            \* SecretID of the successful bootstrap response of the current run (0 = none)
  noLeader,            \* a bootstrap call of the current run failed with no leader elected
  killed,              \* some run was killed
  orphanedAtStart,     \* before the first run the cluster was bootstrapped and the secret unwritten
  fails,               \* transient failures seen in the current run
  gaveUp,              \* untilSucceeds returned an error to its caller in the current run
  issued,              \* calls issued in the current run: [call, host, arg]
  windowCrash,         \* a run was killed, or gave up the secret write, with the cluster bootstrapped and the secret unwritten
  lostResp,            \* a bootstrap call took effect but its response was lost
  prevFinal            \* cluster state left by the previous run when it succeeded

cluster == <<aclRoot, policies, tokens, agentTokens, nextId>>
config  == <<serverAddresses, flagSetServerTokens, rulesErr, clientErr, badHost>>
locals  == <<bootstrapToken, existingTokens, host, tokenSecretID>>
result  == <<retToken, retErr>>
history == <<run, killed, orphanedAtStart, windowCrash, lostResp, prevFinal>>
perRun  == <<givenToken, rootAtStart, bootResp, noLeader>>
vars == <<cluster, secret, config, pc, locals, result, lastErr, opErr, fails, gaveUp, issued,
         perRun,
          history>>

\* ---------------------------------------------------------------- errors
Nil == {}
Contains(err, fragment) == fragment \in err

Code403 == "Unexpected response code: 403"
Code500 == "Unexpected response code: 500"
LegacyMode == "The ACL system is currently in legacy mode."
ConnRefused == "connection refused"

Err403        == {Code403, "ACL bootstrap no longer allowed"}
ErrNoLeader   == {Code500, LegacyMode}
Err500        == {Code500}
ErrRefused    == {"dial tcp", ConnRefused}
ErrTimeout    == {"Client.Timeout exceeded while awaiting headers"}
ErrExists     == {"secrets already exists"}
ErrTemplate   == {"template: executing agent rules"}
ErrClient     == {"creating Consul client"}
ErrTokenLost  == {"ACLs already bootstrapped but the ACL token was not written to a Kubernetes secret.",
                  "We can't proceed because the bootstrap token is lost.", "You must reset ACLs."}
ErrCannotReach == {"Cannot reach consul server via DNS, restarting"}

\* isNoLeaderErr: the error is due to calling the bootstrap API with no leader elected.
isNoLeaderErr(err) ==
  /\ err # Nil
  /\ Contains(err, Code500)
  /\ Contains(err, LegacyMode)

\* ------------------------------------------------- pure parts of the code
AgentPolicyName == "agent-token"
AgentRules == "agent rules"

\* setServerPolicy: the agent policy it upserts and returns.
agentPolicy == [Name |-> AgentPolicyName, Rules |-> AgentRules]

\* Faulty variant: every token is described for the first server of the list.
tokenDescriptionFirst(addr) == <<"Server Token for", serverAddresses[1]>>

\* tokenDescription := fmt.Sprintf("Server Token for %s", host.IP.String())
tokenDescription(addr) == <<"Server Token for", addr>>

\* The token request of setServerTokens, as the token the cluster stores for it.
tokenReq(addr, id) ==
  [Description |-> tokenDescription(addr), Policies |-> <<agentPolicy.Name>>, SecretID |-> id]

\* Faulty variant: the description is not compared.
TokenMatchesAnyDescription(t, desc, policyName) ==
  /\ Len(t.Policies) = 1
  /\ t.Policies[1] = policyName

\* The check "was the token already created": one policy, the agent policy, and the
\* description of this server.
TokenMatches(t, desc, policyName) ==
  /\ Len(t.Policies) = 1
  /\ t.Policies[1] = policyName
  /\ t.Description = desc

\* The search loop over existingTokens: the SecretID of the first matching
\* token, "" (0) when none matches.
FindExistingToken(existing, desc, policyName) ==
  LET hits == {k \in 1..Len(existing) : TokenMatches(existing[k], desc, policyName)}
  IN IF hits = {} THEN 0
     ELSE existing[CHOOSE k \in hits : \A j \in hits : k <= j].SecretID

\* Faulty variant: the stored token is ignored and the bootstrap call always made.
NeedsBootstrapAlways(tok) == TRUE

\* if bootstrapToken == "": bootstrapServers bootstraps only without a stored token.
NeedsBootstrap(tok) == tok = 0

\* Faulty variant: the closure declares a bootstrapToken of its own, so the
\* SecretID of a successful response never reaches bootstrapACLs' variable.
BootstrapOpShadowed(resp) ==
  IF resp.err = Nil
    THEN [ret |-> Nil, bootstrapToken |-> 0, unrecoverableErr |-> Nil]
  ELSE IF Contains(resp.err, Code403)
    THEN [ret |-> Nil, bootstrapToken |-> 0, unrecoverableErr |-> ErrTokenLost]
  ELSE IF Contains(resp.err, ConnRefused)
    THEN [ret |-> Nil, bootstrapToken |-> 0, unrecoverableErr |-> ErrCannotReach]
  ELSE [ret |-> resp.err, bootstrapToken |-> 0, unrecoverableErr |-> Nil]

\* Faulty variant: the 403 of an already bootstrapped cluster is not recognised
\* and is retried like any other error.
BootstrapOpNo403(resp) ==
  IF resp.err = Nil
    THEN [ret |-> Nil, bootstrapToken |-> resp.SecretID, unrecoverableErr |-> Nil]
  ELSE IF Contains(resp.err, ConnRefused)
    THEN [ret |-> Nil, bootstrapToken |-> 0, unrecoverableErr |-> ErrCannotReach]
  ELSE [ret |-> resp.err, bootstrapToken |-> 0, unrecoverableErr |-> Nil]

\* Faulty variant: a no-leader response ends the retry loop as unrecoverable.
BootstrapOpNoLeaderFatal(resp) ==
  IF resp.err = Nil
    THEN [ret |-> Nil, bootstrapToken |-> resp.SecretID, unrecoverableErr |-> Nil]
  ELSE IF Contains(resp.err, Code403)
    THEN [ret |-> Nil, bootstrapToken |-> 0, unrecoverableErr |-> ErrTokenLost]
  ELSE IF Contains(resp.err, ConnRefused) \/ isNoLeaderErr(resp.err)
    THEN [ret |-> Nil, bootstrapToken |-> 0, unrecoverableErr |-> ErrCannotReach]
  ELSE [ret |-> resp.err, bootstrapToken |-> 0, unrecoverableErr |-> Nil]

\* Faulty variant: a refused connection is handed to the retry loop like any
\* other error.
BootstrapOpRefusedRetried(resp) ==
  IF resp.err = Nil
    THEN [ret |-> Nil, bootstrapToken |-> resp.SecretID, unrecoverableErr |-> Nil]
  ELSE IF Contains(resp.err, Code403)
    THEN [ret |-> Nil, bootstrapToken |-> 0, unrecoverableErr |-> ErrTokenLost]
  ELSE [ret |-> resp.err, bootstrapToken |-> 0, unrecoverableErr |-> Nil]

\* Faulty variant: any unexpected response code is taken for "already
\* bootstrapped".
BootstrapOpAnyCodeLost(resp) ==
  IF resp.err = Nil
    THEN [ret |-> Nil, bootstrapToken |-> resp.SecretID, unrecoverableErr |-> Nil]
  ELSE IF Contains(resp.err, Code403) \/ Contains(resp.err, Code500)
    THEN [ret |-> Nil, bootstrapToken |-> 0, unrecoverableErr |-> ErrTokenLost]
  ELSE IF Contains(resp.err, ConnRefused)
    THEN [ret |-> Nil, bootstrapToken |-> 0, unrecoverableErr |-> ErrCannotReach]
  ELSE [ret |-> resp.err, bootstrapToken |-> 0, unrecoverableErr |-> Nil]

\* The closure bootstrapACLs hands to untilSucceeds, applied to the response of
\* ACL().Bootstrap(): the error it returns (nil ends the retry loop), the
\* bootstrapToken it assigns and the unrecoverableErr it sets.
BootstrapOp(resp) ==
  IF resp.err = Nil
    THEN [ret |-> Nil, bootstrapToken |-> resp.SecretID, unrecoverableErr |-> Nil]
  ELSE IF Contains(resp.err, Code403)
    THEN [ret |-> Nil, bootstrapToken |-> 0, unrecoverableErr |-> ErrTokenLost]
  ELSE IF Contains(resp.err, ConnRefused)
    THEN [ret |-> Nil, bootstrapToken |-> 0, unrecoverableErr |-> ErrCannotReach]
  ELSE IF isNoLeaderErr(resp.err)
    THEN [ret |-> resp.err \cup {"no leader elected"}, bootstrapToken |-> 0,
          unrecoverableErr |-> Nil]
  ELSE [ret |-> resp.err, bootstrapToken |-> 0, unrecoverableErr |-> Nil]

\* untilSucceeds: the operation is attempted again exactly when it returned an error.
Retries(ret) == ret # Nil

\* untilSucceeds, after an attempt that returned ret: whether it stops there
\* and returns an error to its caller.  It never does after a nil attempt;
\* after a failed one it either goes on retrying or returns the error, which
\* every call site tests for.
GivesUp(ret) == IF ret = Nil THEN {FALSE} ELSE BOOLEAN

\* createOrUpdateACLPolicy: create the policy, or update in place the one of that name.
createOrUpdateACLPolicy(pols, policy) ==
  {p \in pols : p.Name # policy.Name} \cup {policy}

\* ------------------------------------------------- the external services
\* PUT /v1/acl/bootstrap on a cluster whose bootstrap token is root: the
\* response, the bootstrap token the cluster holds afterwards, and whether the
\* outcome is a transient failure.
ACLBootstrap(root, id) ==
  (IF root = 0 /\ id <= MaxIds
     THEN {[resp |-> [err |-> Nil, SecretID |-> id], root |-> id, transient |-> FALSE],
           [resp |-> [err |-> ErrTimeout, SecretID |-> 0], root |-> id, transient |-> TRUE]}
     ELSE {})
  \cup (IF root # 0
     THEN {[resp |-> [err |-> Err403, SecretID |-> 0], root |-> root, transient |-> FALSE]}
     ELSE {})
  \cup {[resp |-> [err |-> e, SecretID |-> 0], root |-> root, transient |-> TRUE] :
          e \in {ErrNoLeader, Err500, ErrTimeout}}
  \cup {[resp |-> [err |-> ErrRefused, SecretID |-> 0], root |-> root, transient |-> FALSE]}

\* Secrets(ns).Create of a secret holding value: the error returned and the
\* content of the secret afterwards.  Create fails on a secret that exists.
SecretCreate(stored, value) ==
  IF stored # 0
    THEN {[err |-> ErrExists, stored |-> stored, transient |-> FALSE]}
    ELSE {[err |-> Nil, stored |-> value, transient |-> FALSE],
          [err |-> ErrTimeout, stored |-> value, transient |-> TRUE],
          [err |-> ErrTimeout, stored |-> stored, transient |-> TRUE]}

\* A call that either takes effect or not, and whose response is either
\* received or lost: the result and whether the call took effect.
CallOutcomes ==
  {[err |-> Nil, effect |-> TRUE], [err |-> ErrTimeout, effect |-> TRUE],
   [err |-> ErrTimeout, effect |-> FALSE]}

\* The token list after t is created: the list is ordered by accessor ID,
\* which the cluster picks at random, so the new token may come to stand
\* before or after the tokens already there.
ListsWith(s, t) == {<<t>> \o s, s \o <<t>>}

\* ------------------------------------------------------------ the process
ServerLists == UNION {[1..n -> Addrs] : n \in 1..MaxServers}

NoFinal == [ok |-> FALSE, policies |-> {}, tokens |-> <<>>,
            agentTokens |-> [a \in Addrs |-> 0], completed |-> 0]

Call(name, h, arg) == [call |-> name, host |-> h, arg |-> arg]

\* Tokens of a previous installation that carry a server's description but not
\* exactly the agent policy.
ForeignTokens ==
  << [Description |-> tokenDescription("10.0.0.1"),
      Policies |-> <<AgentPolicyName, "other-policy">>, SecretID |-> MaxIds + 1],
     [Description |-> tokenDescription("10.0.0.1"),
      Policies |-> <<"other-policy">>, SecretID |-> MaxIds + 2] >>

\* The cluster and the secret before the first run: a fresh cluster, a cluster
\* of a previous installation whose bootstrap token is in the secret, or a
\* cluster that was bootstrapped without the secret being written.
Init ==
  /\ serverAddresses \in ServerLists
  /\ flagSetServerTokens \in BOOLEAN
  /\ rulesErr \in BOOLEAN
  /\ clientErr \in BOOLEAN
  /\ badHost \in 0..Len(serverAddresses)
  /\ (clientErr \/ rulesErr \/ ~flagSetServerTokens) => badHost = 0
  /\ \/ /\ aclRoot = 0 /\ secret = 0 /\ nextId = 1
        /\ policies = {} /\ tokens = <<>> /\ orphanedAtStart = FALSE
     \/ /\ aclRoot = 1 /\ secret = 1 /\ nextId = 2
        /\ policies \in {{}, {[Name |-> AgentPolicyName, Rules |-> "older agent rules"]}}
        /\ tokens \in {<<>>, ForeignTokens} /\ orphanedAtStart = FALSE
     \/ /\ aclRoot = 1 /\ secret = 0 /\ nextId = 2
        /\ policies = {} /\ tokens = <<>> /\ orphanedAtStart = TRUE
  /\ agentTokens = [a \in Addrs |-> 0]
  /\ pc = "idle"
  /\ bootstrapToken = 0 /\ existingTokens = <<>> /\ host = 0 /\ tokenSecretID = 0
  /\ retToken = 0 /\ retErr = Nil /\ lastErr = Nil /\ opErr = Nil
  /\ run = 0 /\ fails = 0 /\ issued = {}
  /\ givenToken = 0 /\ rootAtStart = 0 /\ bootResp = 0 /\ noLeader = FALSE
  /\ killed = FALSE /\ gaveUp = FALSE
  /\ windowCrash = FALSE /\ lostResp = FALSE /\ prevFinal = NoFinal

\* bootstrapACLs up to the bootstrap call: the client for the first server is
\* created, and the run fails when it cannot be.
EnterBootstrap ==
  IF clientErr THEN [pc |-> "done", retToken |-> 0, retErr |-> ErrClient]
  ELSE [pc |-> "bootstrap", retToken |-> 0, retErr |-> Nil]

\* Faulty variant: the error of rendering the agent rules is dropped and the
\* policy upsert goes ahead.
EnterProvisioningIgnoresRulesErr(tok) ==
  IF ~flagSetServerTokens THEN [pc |-> "done", retToken |-> tok, retErr |-> Nil]
  ELSE IF clientErr THEN [pc |-> "done", retToken |-> 0, retErr |-> ErrClient]
  ELSE [pc |-> "policy", retToken |-> 0, retErr |-> Nil]

\* Faulty variant: the bootstrap token is returned along with the error.
EnterProvisioningKeepsToken(tok) ==
  IF ~flagSetServerTokens THEN [pc |-> "done", retToken |-> tok, retErr |-> Nil]
  ELSE IF clientErr THEN [pc |-> "done", retToken |-> tok, retErr |-> ErrClient]
  ELSE IF rulesErr THEN [pc |-> "done", retToken |-> tok, retErr |-> ErrTemplate]
  ELSE [pc |-> "policy", retToken |-> 0, retErr |-> Nil]

\* bootstrapServers after the bootstrap token is known, up to the first call of
\* setServerTokens: return the token when server tokens are not to be set,
\* fail when the client cannot be created or the agent rules do not render,
\* else go on to the policy upsert.
EnterProvisioning(tok) ==
  IF ~flagSetServerTokens THEN [pc |-> "done", retToken |-> tok, retErr |-> Nil]
  ELSE IF clientErr THEN [pc |-> "done", retToken |-> 0, retErr |-> ErrClient]
  ELSE IF rulesErr THEN [pc |-> "done", retToken |-> 0, retErr |-> ErrTemplate]
  ELSE [pc |-> "policy", retToken |-> 0, retErr |-> Nil]

\* Faulty variant: the error of creating the server's client is dropped and
\* the loop goes on with that server.
EnterHostIgnoresClientErr(h, existing) ==
  IF h > Len(serverAddresses)
    THEN [pc |-> "done", tokenSecretID |-> 0, retToken |-> bootstrapToken, retErr |-> Nil]
  ELSE LET id == FindExistingToken(existing, tokenDescription(serverAddresses[h]),
                                   agentPolicy.Name)
       IN [pc |-> IF id = 0 THEN "createToken" ELSE "updateAgentToken",
           tokenSecretID |-> id, retToken |-> 0, retErr |-> Nil]

\* Faulty variant: the search at each server is made in the cluster's current
\* token list instead of the list fetched before the loop.
EnterHostRefetch(h, existing) ==
  IF h > Len(serverAddresses)
    THEN [pc |-> "done", tokenSecretID |-> 0, retToken |-> bootstrapToken, retErr |-> Nil]
  ELSE IF badHost = h
    THEN [pc |-> "done", tokenSecretID |-> 0, retToken |-> 0, retErr |-> ErrClient]
  ELSE LET id == FindExistingToken(tokens, tokenDescription(serverAddresses[h]),
                                   agentPolicy.Name)
       IN [pc |-> IF id = 0 THEN "createToken" ELSE "updateAgentToken",
           tokenSecretID |-> id, retToken |-> 0, retErr |-> Nil]

\* The head of the loop of setServerTokens at server h: past the last server
\* the run returns the bootstrap token; else the client for the server is
\* created (the run fails when it cannot be), the token list is searched and
\* the token is created when none matches.
EnterHost(h, existing) ==
  IF h > Len(serverAddresses)
    THEN [pc |-> "done", tokenSecretID |-> 0, retToken |-> bootstrapToken, retErr |-> Nil]
  ELSE IF badHost = h
    THEN [pc |-> "done", tokenSecretID |-> 0, retToken |-> 0, retErr |-> ErrClient]
  ELSE LET id == FindExistingToken(existing, tokenDescription(serverAddresses[h]),
                                   agentPolicy.Name)
       IN [pc |-> IF id = 0 THEN "createToken" ELSE "updateAgentToken",
           tokenSecretID |-> id, retToken |-> 0, retErr |-> Nil]

\* A run starts: the caller reads the secret and calls bootstrapServers with it.
StartRun ==
  /\ pc \in {"idle", "done", "crashed"}
  /\ run < MaxRuns
  /\ run' = run + 1
  /\ prevFinal' = IF pc = "done" /\ retErr = Nil
                    THEN [ok |-> TRUE, policies |-> policies, tokens |-> tokens,
                          agentTokens |-> agentTokens,
                          completed |-> IF host = 0 THEN 0 ELSE host - 1]
                    ELSE [NoFinal EXCEPT
                            !.completed = IF pc = "done" /\ host > 0 THEN host - 1 ELSE 0]
  /\ bootstrapToken' = secret /\ givenToken' = secret /\ rootAtStart' = aclRoot
  /\ bootResp' = 0 /\ noLeader' = FALSE
  /\ issued' = {} /\ fails' = 0 /\ gaveUp' = FALSE /\ lastErr' = Nil /\ opErr' = Nil
  /\ existingTokens' = <<>> /\ host' = 0 /\ tokenSecretID' = 0
  /\ LET n == IF NeedsBootstrap(secret) THEN EnterBootstrap
              ELSE EnterProvisioning(secret)
     IN pc' = n.pc /\ retToken' = n.retToken /\ retErr' = n.retErr
  /\ UNCHANGED <<cluster, secret, config, killed, orphanedAtStart, windowCrash, lostResp>>

\* bootstrapACLs, one attempt of the bootstrap call under untilSucceeds, and
\* what follows it when the loop ends.
Bootstrap ==
  /\ pc = "bootstrap"
  /\ \E out \in ACLBootstrap(aclRoot, nextId) :
       LET r == BootstrapOp(out.resp) IN
       /\ out.transient => fails < MaxFails
       /\ aclRoot' = out.root
       /\ nextId' = IF out.root # aclRoot THEN nextId + 1 ELSE nextId
       /\ lostResp' = (lostResp \/ (out.root # aclRoot /\ out.resp.err # Nil))
       /\ issued' = issued \cup {Call("bootstrap", 0, 0)}
       /\ lastErr' = out.resp.err /\ opErr' = r.ret
       /\ bootResp' = IF out.resp.err = Nil THEN out.resp.SecretID ELSE bootResp
       /\ noLeader' = (noLeader \/ out.resp.err = ErrNoLeader)
       /\ fails' = IF out.transient THEN fails + 1 ELSE fails
       /\ \E stop \in GivesUp(r.ret) :
            /\ gaveUp' = stop
            /\ IF stop
                 THEN pc' = "done" /\ bootstrapToken' = 0
                      /\ retToken' = 0 /\ retErr' = r.ret
               ELSE IF Retries(r.ret)
                 THEN UNCHANGED <<pc, bootstrapToken, result>>
               ELSE IF r.unrecoverableErr # Nil
                 THEN pc' = "done" /\ bootstrapToken' = 0
                      /\ retToken' = 0 /\ retErr' = r.unrecoverableErr
               ELSE pc' = "writeSecret" /\ bootstrapToken' = r.bootstrapToken
                    /\ UNCHANGED result
  /\ UNCHANGED <<policies, tokens, agentTokens, secret, config, existingTokens, host,
                 tokenSecretID, givenToken, rootAtStart, run, killed, orphanedAtStart,
                 windowCrash, prevFinal>>

\* Faulty variant: the secret write is attempted once and its error dropped.
WriteSecretNoRetry ==
  /\ pc = "writeSecret"
  /\ \E out \in SecretCreate(secret, bootstrapToken) :
       /\ out.transient => fails < MaxFails
       /\ secret' = out.stored
       /\ issued' = issued \cup {Call("secretCreate", 0, bootstrapToken)}
       /\ lastErr' = out.err /\ opErr' = out.err
       /\ fails' = IF out.transient THEN fails + 1 ELSE fails
       /\ LET n == EnterProvisioning(bootstrapToken)
          IN pc' = n.pc /\ retToken' = n.retToken /\ retErr' = n.retErr
  /\ gaveUp' = FALSE
  /\ UNCHANGED <<cluster, config, locals, perRun, history>>

\* bootstrapACLs, one attempt of the secret write under untilSucceeds; on
\* success bootstrapACLs returns the token and bootstrapServers goes on.
WriteSecret ==
  /\ pc = "writeSecret"
  /\ \E out \in SecretCreate(secret, bootstrapToken) :
       /\ out.transient => fails < MaxFails
       /\ secret' = out.stored
       /\ issued' = issued \cup {Call("secretCreate", 0, bootstrapToken)}
       /\ lastErr' = out.err /\ opErr' = out.err
       /\ fails' = IF out.transient THEN fails + 1 ELSE fails
       /\ \E stop \in GivesUp(out.err) :
            /\ gaveUp' = stop
            /\ windowCrash' = (windowCrash \/ (stop /\ out.stored = 0))
            /\ IF stop
                 THEN pc' = "done" /\ retToken' = 0 /\ retErr' = out.err
               ELSE IF Retries(out.err)
                 THEN UNCHANGED <<pc, result>>
               ELSE LET n == EnterProvisioning(bootstrapToken)
                    IN pc' = n.pc /\ retToken' = n.retToken /\ retErr' = n.retErr
  /\ UNCHANGED <<cluster, config, locals, perRun, run, killed, orphanedAtStart, lostResp,
                 prevFinal>>

\* setServerPolicy, one attempt of the policy upsert under untilSucceeds.
SetServerPolicy ==
  /\ pc = "policy"
  /\ \E out \in CallOutcomes :
       /\ out.err # Nil => fails < MaxFails
       /\ policies' = IF out.effect THEN createOrUpdateACLPolicy(policies, agentPolicy)
                      ELSE policies
       /\ issued' = issued \cup {Call("policyUpsert", 0, 0)}
       /\ lastErr' = out.err /\ opErr' = out.err
       /\ fails' = IF out.err # Nil THEN fails + 1 ELSE fails
       /\ \E stop \in GivesUp(out.err) :
            /\ gaveUp' = stop
            /\ IF stop
                 THEN pc' = "done" /\ retToken' = 0 /\ retErr' = out.err
                 ELSE /\ pc' = IF Retries(out.err) THEN pc ELSE "tokenList"
                      /\ UNCHANGED result
  /\ UNCHANGED <<aclRoot, tokens, agentTokens, nextId, secret, config, locals,
                 perRun, history>>

\* setServerTokens, the token list call (made once, outside untilSucceeds)
\* and, when it succeeds, the head of the loop at the first server.
TokenList ==
  /\ pc = "tokenList"
  /\ \E err \in {Nil, ErrTimeout} :
       /\ issued' = issued \cup {Call("tokenList", 0, 0)}
       /\ lastErr' = err /\ opErr' = err
       /\ IF err # Nil
            THEN /\ pc' = "done" /\ retToken' = 0 /\ retErr' = err
                 /\ UNCHANGED <<existingTokens, host, tokenSecretID>>
            ELSE LET n == EnterHost(1, tokens)
                 IN /\ existingTokens' = tokens /\ host' = 1
                    /\ tokenSecretID' = n.tokenSecretID
                    /\ pc' = n.pc /\ retToken' = n.retToken /\ retErr' = n.retErr
  /\ UNCHANGED <<cluster, secret, config, bootstrapToken, fails, gaveUp, perRun, history>>

\* Faulty variant: after the token creation the loop goes on to the next
\* server without the agent token push.
CreateTokenSkipsPush ==
  /\ pc = "createToken"
  /\ \E out \in CallOutcomes :
       /\ out.err # Nil => fails < MaxFails
       /\ out.effect => nextId <= MaxIds
       /\ IF out.effect
            THEN tokens' \in ListsWith(tokens, tokenReq(serverAddresses[host], nextId))
            ELSE tokens' = tokens
       /\ nextId' = IF out.effect THEN nextId + 1 ELSE nextId
       /\ issued' = issued \cup {Call("tokenCreate", host, 0)}
       /\ lastErr' = out.err /\ opErr' = out.err
       /\ fails' = IF out.err # Nil THEN fails + 1 ELSE fails
       /\ \E stop \in GivesUp(out.err) :
            /\ gaveUp' = stop
            /\ IF stop
                 THEN /\ pc' = "done" /\ retToken' = 0 /\ retErr' = out.err
                      /\ UNCHANGED <<host, tokenSecretID>>
               ELSE IF Retries(out.err)
                 THEN UNCHANGED <<pc, host, tokenSecretID, result>>
               ELSE LET n == EnterHost(host + 1, existingTokens)
                    IN /\ host' = host + 1 /\ tokenSecretID' = n.tokenSecretID
                       /\ pc' = n.pc /\ retToken' = n.retToken /\ retErr' = n.retErr
  /\ UNCHANGED <<aclRoot, policies, agentTokens, secret, config, bootstrapToken,
                 existingTokens, perRun, history>>

\* setServerTokens, one attempt of the token creation under untilSucceeds.
CreateToken ==
  /\ pc = "createToken"
  /\ \E out \in CallOutcomes :
       /\ out.err # Nil => fails < MaxFails
       /\ out.effect => nextId <= MaxIds
       /\ IF out.effect
            THEN tokens' \in ListsWith(tokens, tokenReq(serverAddresses[host], nextId))
            ELSE tokens' = tokens
       /\ nextId' = IF out.effect THEN nextId + 1 ELSE nextId
       /\ issued' = issued \cup {Call("tokenCreate", host, 0)}
       /\ lastErr' = out.err /\ opErr' = out.err
       /\ fails' = IF out.err # Nil THEN fails + 1 ELSE fails
       /\ \E stop \in GivesUp(out.err) :
            /\ gaveUp' = stop
            /\ IF stop
                 THEN /\ pc' = "done" /\ retToken' = 0 /\ retErr' = out.err
                      /\ UNCHANGED tokenSecretID
               ELSE IF Retries(out.err)
                 THEN UNCHANGED <<pc, tokenSecretID, result>>
               ELSE pc' = "updateAgentToken" /\ tokenSecretID' = nextId
                    /\ UNCHANGED result
  /\ UNCHANGED <<aclRoot, policies, agentTokens, secret, config, bootstrapToken,
                 existingTokens, host, perRun, history>>

\* setServerTokens, one attempt of the agent token push under untilSucceeds
\* and, when it succeeds, the head of the loop at the next server.
UpdateAgentToken ==
  /\ pc = "updateAgentToken"
  /\ \E out \in CallOutcomes :
       /\ out.err # Nil => fails < MaxFails
       /\ agentTokens' = IF out.effect
                           THEN [agentTokens EXCEPT ![serverAddresses[host]] = tokenSecretID]
                           ELSE agentTokens
       /\ issued' = issued \cup {Call("updateAgentToken", host, tokenSecretID)}
       /\ lastErr' = out.err /\ opErr' = out.err
       /\ fails' = IF out.err # Nil THEN fails + 1 ELSE fails
       /\ \E stop \in GivesUp(out.err) :
            /\ gaveUp' = stop
            /\ IF stop
                 THEN /\ pc' = "done" /\ retToken' = 0 /\ retErr' = out.err
                      /\ UNCHANGED <<host, tokenSecretID>>
               ELSE IF Retries(out.err)
                 THEN UNCHANGED <<pc, host, tokenSecretID, result>>
               ELSE LET n == EnterHost(host + 1, existingTokens)
                    IN /\ host' = host + 1 /\ tokenSecretID' = n.tokenSecretID
                       /\ pc' = n.pc /\ retToken' = n.retToken /\ retErr' = n.retErr
  /\ UNCHANGED <<aclRoot, policies, tokens, nextId, secret, config, bootstrapToken,
                 existingTokens, perRun, history>>

\* The process is killed in the middle of a run: what it held in memory is
\* gone, the cluster and the secret stay as they are.
Crash ==
  /\ pc \notin {"idle", "done", "crashed"}
  /\ pc' = "crashed" /\ killed' = TRUE
  /\ windowCrash' = (windowCrash \/ (aclRoot # 0 /\ secret = 0))
  /\ bootstrapToken' = 0 /\ existingTokens' = <<>> /\ host' = 0 /\ tokenSecretID' = 0
  /\ retToken' = 0 /\ retErr' = Nil /\ lastErr' = Nil /\ opErr' = Nil
  /\ fails' = 0 /\ gaveUp' = FALSE /\ issued' = {}
  /\ givenToken' = 0 /\ rootAtStart' = 0 /\ bootResp' = 0 /\ noLeader' = FALSE
  /\ UNCHANGED <<cluster, secret, config, run, orphanedAtStart, lostResp, prevFinal>>

Next ==
  \/ StartRun
  \/ Bootstrap
  \/ WriteSecret
  \/ SetServerPolicy
  \/ TokenList
  \/ CreateToken
  \/ UpdateAgentToken
  \/ Crash

Spec == Init /\ [][Next]_vars

\* ------------------------------------------------------------ the claims
Issued(name) == {c \in issued : c.call = name}
ProvisioningCalls == {"policyUpsert", "tokenList", "tokenCreate", "updateAgentToken"}

\* C1 as stated: a run called with a non-empty stored bootstrap token makes no
\* bootstrap call and no secret write, and returns the stored token unchanged.
C1_StoredTokenReturned ==
  (run >= 1 /\ givenToken # 0) =>
     /\ Issued("bootstrap") = {} /\ Issued("secretCreate") = {}
     /\ pc = "done" => retToken = givenToken

\* C1 amended: a run called with a non-empty stored bootstrap token makes no
\* bootstrap call and no secret write and leaves the secret as it is; when it
\* returns without error it returns the stored token unchanged, and when a
\* provisioning step fails it returns the empty string with the error.
C1_StoredTokenSkipsBootstrap ==
  (run >= 1 /\ givenToken # 0) =>
     /\ Issued("bootstrap") = {} /\ Issued("secretCreate") = {}
     /\ secret = givenToken /\ bootstrapToken = givenToken
     /\ pc = "done" => IF retErr = Nil THEN retToken = givenToken ELSE retToken = 0

C1_Witness ==
  /\ pc = "done" /\ givenToken # 0 /\ retErr = Nil /\ retToken = givenToken
  /\ Issued("updateAgentToken") # {}

\* untilSucceeds returned an error for the secret write: the run is over with
\* that error and the empty string, and nothing was called after the write.
WriteAbandoned ==
  /\ gaveUp /\ pc = "done" /\ retErr # Nil /\ retToken = 0
  /\ \A c \in issued : c.call \in {"bootstrap", "secretCreate"}

\* C2: with an empty stored token and a successful bootstrap response, the
\* credential bootstrapACLs returns is the SecretID of that response, the
\* secret holds exactly that value once bootstrapACLs has returned it without
\* error, and the run never gets past the secret write without the secret
\* written: a write that fails is attempted again, or (when untilSucceeds
\* returns its error) ends the run with the error and no credential.
C2_BootstrapTokenPersisted ==
  (givenToken = 0 /\ bootResp # 0) =>
     /\ bootstrapToken = bootResp
     /\ (pc # "writeSecret" /\ ~WriteAbandoned) =>
          /\ secret = bootResp
          /\ Call("secretCreate", 0, bootResp) \in issued
     /\ (pc = "done" /\ retErr = Nil) => retToken = bootResp
     /\ retToken # 0 => secret = retToken

C2_Witness ==
  /\ pc = "done" /\ givenToken = 0 /\ bootResp # 0 /\ retErr = Nil
  /\ retToken = bootResp /\ secret = bootResp /\ fails > 0
  /\ lastErr = Nil

\* C3: a bootstrap call answered 403 while no credential is stored ends the
\* run at once with the root-credential-lost error and the empty credential:
\* nothing is called after it, no secret is written and no provisioning call
\* is made.
C3_AlreadyBootstrappedIsFatal ==
  (givenToken = 0 /\ Contains(lastErr, Code403)) =>
     /\ pc = "done" /\ retErr = ErrTokenLost /\ retToken = 0
     /\ issued = {Call("bootstrap", 0, 0)}
     /\ secret = 0

C3_Witness ==
  /\ pc = "done" /\ retErr = ErrTokenLost /\ givenToken = 0
  /\ Contains(lastErr, Code403) /\ aclRoot # 0

\* Every listed server holds, as its agent token, the secret of a token of the
\* cluster that carries the server's description and exactly the agent policy.
ServersProvisioned ==
  \A h \in 1..Len(serverAddresses) :
     \E k \in 1..Len(tokens) :
        /\ TokenMatches(tokens[k], tokenDescription(serverAddresses[h]), AgentPolicyName)
        /\ tokens[k].SecretID # 0
        /\ agentTokens[serverAddresses[h]] = tokens[k].SecretID

\* C4 as stated: whatever the point at which a run was killed, a restarted run
\* that reads its stored credential from the secret never ends with the root
\* credential lost (the cluster was not bootstrapped behind the job's back and
\* no bootstrap response was lost).
C4_RestartNeverLosesRoot ==
  (killed /\ ~orphanedAtStart /\ ~lostResp /\ pc = "done") => retErr # ErrTokenLost

\* C4 amended: a killed run is safe to resume except when it is killed
\* between the bootstrap call taking effect and the completion of the secret
\* write.  A run ends with the root credential lost only if a process was
\* killed, or gave up the secret write, (or the job first started) with the
\* cluster bootstrapped and the secret unwritten, or a bootstrap call took
\* effect without its response being received; and a run that succeeds after a kill leaves the secret
\* holding the root credential it returns and, when server tokens are set,
\* the agent policy in place and every listed server provisioned.
C4_RestartSafeOutsideWindow ==
  /\ (pc = "done" /\ retErr = ErrTokenLost) =>
        (windowCrash \/ orphanedAtStart \/ lostResp)
  /\ (killed /\ pc = "done" /\ retErr = Nil) =>
        /\ retToken # 0 /\ secret = retToken /\ aclRoot = retToken
        /\ flagSetServerTokens => (agentPolicy \in policies /\ ServersProvisioned)

C4_Witness ==
  /\ killed /\ ~windowCrash /\ pc = "done" /\ retErr = Nil /\ run > 1
  /\ flagSetServerTokens /\ givenToken # 0 /\ ServersProvisioned

\* C5: the protocol run twice in succession, the second run after the first
\* succeeded and with the secret shared: the second run makes no bootstrap
\* call and no token creation, the agent policy is not duplicated, and the
\* policies, the tokens and every server's agent token are as the first run
\* left them.
C5_SecondRunIsNoOp ==
  (prevFinal.ok /\ pc = "done" /\ retErr = Nil) =>
     /\ Issued("bootstrap") = {} /\ Issued("tokenCreate") = {}
     /\ Cardinality({p \in policies : p.Name = AgentPolicyName}) <= 1
     /\ policies = prevFinal.policies
     /\ tokens = prevFinal.tokens
     /\ agentTokens = prevFinal.agentTokens

\* The secrets of the tokens of the fetched list that carry server h's
\* description and exactly the agent policy.
ReusableSecrets(h) ==
  {existingTokens[k].SecretID : k \in
     {j \in 1..Len(existingTokens) :
        /\ existingTokens[j].Description = <<"Server Token for", serverAddresses[h]>>
        /\ existingTokens[j].Policies = <<AgentPolicyName>>}}

\* C6: for every server whose description and agent policy a token of the
\* fetched list carries, no token creation is issued, the secret used is that
\* of such a token, and the agent token push is still issued with that secret.
C6_ExistingTokenReused ==
  \A h \in 1..Len(serverAddresses) :
     (host >= 1 /\ ReusableSecrets(h) # {}) =>
        /\ Issued("tokenCreate") \cap {c \in issued : c.host = h} = {}
        /\ \A c \in Issued("updateAgentToken") : c.host = h => c.arg \in ReusableSecrets(h)
        /\ (host = h /\ pc = "updateAgentToken") => tokenSecretID \in ReusableSecrets(h)
        /\ host > h =>
             /\ \E c \in Issued("updateAgentToken") : c.host = h
             /\ agentTokens[serverAddresses[h]] \in ReusableSecrets(h)

C6_Witness ==
  /\ pc = "done" /\ retErr = Nil /\ Len(serverAddresses) = 2
  /\ serverAddresses[1] # serverAddresses[2]
  /\ ReusableSecrets(1) # {} /\ ReusableSecrets(2) = {}
  /\ Call("tokenCreate", 2, 0) \in issued
  /\ \E c \in Issued("updateAgentToken") : c.host = 1 /\ c.arg \in ReusableSecrets(1)

\* C7: in every reachable state the cluster holds at most one token per
\* description and policy set: no second server token is minted for a server.
C7_AtMostOneTokenPerServer ==
  \A i, j \in 1..Len(tokens) :
     (tokens[i].Description = tokens[j].Description
        /\ tokens[i].Policies = tokens[j].Policies) => i = j

\* C8: a bootstrap call failing with no leader elected is handed to
\* untilSucceeds as an error to retry, never as an unrecoverable one: unless
\* untilSucceeds itself returns the error, the run is still in the bootstrap
\* loop right after such a failure with nothing returned; and once a later
\* call succeeds the credential is that call's SecretID, it is persisted
\* before the run goes on, and the run returns no bootstrap error.
C8_NoLeaderRetried ==
  /\ isNoLeaderErr(lastErr) =>
        /\ Contains(opErr, "no leader elected")
        /\ retErr \notin {ErrTokenLost, ErrCannotReach}
        /\ ~gaveUp => (pc = "bootstrap" /\ retErr = Nil /\ retToken = 0)
        /\ gaveUp => (pc = "done" /\ retErr = opErr /\ retToken = 0)
  /\ (noLeader /\ bootResp # 0) =>
        /\ bootstrapToken = bootResp /\ aclRoot = bootResp
        /\ retErr \notin {ErrTokenLost, ErrCannotReach}
        /\ (pc # "writeSecret" /\ ~WriteAbandoned) => secret = bootResp

C8_Witness ==
  /\ noLeader /\ bootResp # 0 /\ pc = "done" /\ retErr = Nil
  /\ retToken = bootResp /\ secret = bootResp

\* C9: every network call is retried by untilSucceeds, so no transient
\* failure of a call is returned to the caller as the error of the run
\* (other than by untilSucceeds returning it).
C9_TransientNeverSurfaced ==
  (pc = "done" /\ ~gaveUp) => retErr # ErrTimeout

\* C10: in a run that bootstraps, the secret holds the new root credential,
\* by a secret write of this run, before any policy upsert, token list, token
\* creation or agent token push is issued.
C10_PersistedBeforeUse ==
  (Issued("bootstrap") # {} /\ \E c \in issued : c.call \in ProvisioningCalls) =>
     /\ bootResp # 0
     /\ secret = bootResp
     /\ Call("secretCreate", 0, bootResp) \in issued

C10_Witness ==
  /\ Issued("bootstrap") # {} /\ Issued("policyUpsert") # {}
  /\ Issued("updateAgentToken") # {} /\ secret = bootResp /\ pc = "done"

\* C11: no bootstrap call is issued in a state where the secret already holds
\* a token, and within one run no bootstrap call is issued after one whose
\* response carried a token.
C11_NoBootstrapOnceRecorded ==
  [][(pc = "bootstrap" /\ Call("bootstrap", 0, 0) \in issued')
       => (secret = 0 /\ bootResp = 0 /\ givenToken = 0)]_vars

\* A second run that found the token the first one recorded and went through
\* to the end without a bootstrap call.
C11_Witness ==
  /\ run = 2 /\ pc = "done" /\ retErr = Nil
  /\ secret # 0 /\ givenToken = secret /\ aclRoot = secret
  /\ ~orphanedAtStart /\ Issued("bootstrap") = {}

\* C12: a bootstrap call answered with "connection refused" ends the retry
\* loop at that attempt: the run returns the cannot-reach error with the empty
\* string, and neither the secret write nor a provisioning call is issued.
C12_ConnectionRefusedIsTerminal ==
  (pc # "crashed" /\ Contains(lastErr, ConnRefused)) =>
     /\ pc = "done" /\ retErr = ErrCannotReach /\ retToken = 0
     /\ \A c \in issued : c.call = "bootstrap"
     /\ secret = 0

\* A run ended by a refused connection after an earlier attempt had failed
\* transiently and been retried.
C12_Witness ==
  /\ pc = "done" /\ retErr = ErrCannotReach /\ Contains(lastErr, ConnRefused)
  /\ fails > 0 /\ Issued("bootstrap") # {}

\* Server h holds, as its agent token, the secret of a token of the cluster
\* described for h's address and carrying exactly the agent policy.
HoldsOwnToken(h) ==
  \E k \in 1..Len(tokens) :
     /\ tokens[k].Description = <<"Server Token for", serverAddresses[h]>>
     /\ tokens[k].Policies = <<AgentPolicyName>>
     /\ tokens[k].SecretID # 0
     /\ agentTokens[serverAddresses[h]] = tokens[k].SecretID

\* C13: when a step fails at a server of the loop (its client cannot be
\* created, or untilSucceeds returns the error of its token creation or of its
\* push), the run ends there with that error and the empty string, no call is
\* issued for a later server (nor, when the client cannot be created, for
\* that server), the servers before it hold their own token as agent token;
\* and a run that follows a run which completed some servers issues no token
\* creation for those servers.
C13_PerServerFailureAborts ==
  /\ (badHost # 0 /\ host >= badHost) =>
        /\ host = badHost /\ pc = "done" /\ retErr = ErrClient /\ retToken = 0
        /\ \A c \in issued : c.host < badHost
  /\ (gaveUp /\ host >= 1) =>
        /\ pc = "done" /\ retErr = lastErr /\ retErr # Nil /\ retToken = 0
        /\ \E c \in issued : c.host = host
  /\ (pc = "done" /\ retErr # Nil /\ host >= 1) =>
        /\ host <= Len(serverAddresses)
        /\ \A c \in issued : c.host <= host
        /\ \A h \in 1..(host - 1) : HoldsOwnToken(h)
  /\ \A h \in 1..prevFinal.completed : Call("tokenCreate", h, 0) \notin issued

\* A second run that is abandoned at the second server as the first run was:
\* the first server, completed in the first run, has its token pushed again
\* and none created, and nothing but the failed step is issued for the second.
C13_Witness ==
  /\ run = 2 /\ gaveUp /\ host = 2 /\ pc = "done" /\ retErr = ErrTimeout
  /\ prevFinal.completed = 1
  /\ \E c \in Issued("updateAgentToken") : c.host = 1
  /\ Call("tokenCreate", 1, 0) \notin issued
  /\ HoldsOwnToken(1)

\* C14: when the agent rules do not render, no provisioning step is entered
\* and no policy upsert, token list, token creation or agent token push is
\* issued; the run that gets as far as rendering ends at once with the
\* rendering error and the empty string.
C14_RulesErrorFailsAtOnce ==
  /\ (rulesErr /\ flagSetServerTokens /\ ~clientErr) =>
        /\ \A c \in issued : c.call \notin ProvisioningCalls
        /\ pc \notin {"policy", "tokenList", "createToken", "updateAgentToken"}
        /\ (pc = "done" /\ ~gaveUp /\ retErr \notin {ErrTokenLost, ErrCannotReach})
              => (retErr = ErrTemplate /\ retToken = 0)
  /\ retErr = ErrTemplate => (pc = "done" /\ rulesErr)

\* A run that bootstrapped, wrote the secret and then failed to render the
\* agent rules.
C14_Witness ==
  /\ pc = "done" /\ retErr = ErrTemplate /\ retToken = 0
  /\ bootResp # 0 /\ secret = bootResp
  /\ Issued("secretCreate") # {}

\* The decision taken for the server the loop is at agrees with the fetched
\* list: a token is created only when the list holds none for the server, and
\* the secret to push is that of a token of the list or, when the list holds
\* none, that of the token created for the server.
DecidedOnSnapshot ==
  /\ pc = "createToken" => ReusableSecrets(host) = {}
  /\ pc = "updateAgentToken" =>
        \/ tokenSecretID \in ReusableSecrets(host)
        \/ ReusableSecrets(host) = {} /\ Call("tokenCreate", host, 0) \in issued

\* C15: the token list call is issued once in a run, with the agent policy
\* upserted and before any token creation or push; the fetched list is what
\* the cluster held at that call and is not changed afterwards in the run; and
\* every reuse decision of the loop agrees with that list.
C15_TokenListFetchedOnce ==
  [][/\ (pc = "tokenList" /\ Call("tokenList", 0, 0) \in issued') =>
          /\ Call("tokenList", 0, 0) \notin issued
          /\ Call("policyUpsert", 0, 0) \in issued /\ agentPolicy \in policies
          /\ Issued("tokenCreate") = {} /\ Issued("updateAgentToken") = {}
          /\ pc' # "tokenList"
          /\ lastErr' = Nil => existingTokens' = tokens
     /\ existingTokens' # existingTokens =>
          (pc = "tokenList" \/ pc' \in {"crashed", "bootstrap", "policy", "done"})
     /\ DecidedOnSnapshot']_vars

\* The second of two servers of the same address has a token created although
\* the cluster already holds the token created for the first: the list fetched
\* before the loop did not hold it.
C15_Witness ==
  /\ host = 2 /\ pc = "updateAgentToken" /\ existingTokens = <<>>
  /\ serverAddresses[1] = serverAddresses[2]
  /\ Call("tokenCreate", 2, 0) \in issued
  /\ Len(tokens) = 2 /\ Issued("tokenList") # {}

\* C16: a token creation or push is issued only for the server the loop is
\* at, with no call issued yet for a later server and a push issued for every
\* earlier one; a token creation for a server is issued before any push for
\* it; and the loop moves from a server to the next one only, on the
\* successful push for that server.
C16_ServersInListOrder ==
  [][/\ (pc = "createToken" /\ pc' # "crashed") =>
          /\ Call("tokenCreate", host, 0) \in issued'
          /\ \A c \in issued' : c.host <= host
          /\ \A c \in Issued("updateAgentToken") : c.host < host
          /\ \A h \in 1..(host - 1) : \E c \in Issued("updateAgentToken") : c.host = h
     /\ (pc = "updateAgentToken" /\ pc' # "crashed") =>
          /\ Call("updateAgentToken", host, tokenSecretID) \in issued'
          /\ \A c \in issued' : c.host <= host
          /\ \A h \in 1..(host - 1) : \E c \in Issued("updateAgentToken") : c.host = h
     /\ host' \notin {host, 0} =>
          /\ host' = host + 1
          /\ \/ host = 0 /\ pc = "tokenList"
             \/ pc = "updateAgentToken" /\ lastErr' = Nil]_vars

\* A run over two servers of different addresses that created and pushed a
\* token for each.
C16_Witness ==
  /\ Len(serverAddresses) = 2 /\ serverAddresses[1] # serverAddresses[2]
  /\ pc = "done" /\ retErr = Nil /\ host = 3
  /\ \A h \in 1..2 : /\ Call("tokenCreate", h, 0) \in issued
                      /\ \E c \in Issued("updateAgentToken") : c.host = h

\* C17: when a run that sets server tokens returns without error, for every
\* listed server a push was issued, every push issued for it carried the
\* non-empty secret of a token described for that server's address with
\* exactly the agent policy, and the server holds such a secret as its agent
\* token.
C17_SuccessMeansOwnTokenPushed ==
  (pc = "done" /\ retErr = Nil /\ flagSetServerTokens) =>
     \A h \in 1..Len(serverAddresses) :
        /\ \E c \in Issued("updateAgentToken") : c.host = h
        /\ \A c \in Issued("updateAgentToken") :
              c.host = h =>
                /\ c.arg # 0
                /\ \E k \in 1..Len(tokens) :
                      /\ tokens[k].SecretID = c.arg
                      /\ tokens[k].Description = <<"Server Token for", serverAddresses[h]>>
                      /\ tokens[k].Policies = <<AgentPolicyName>>
        /\ HoldsOwnToken(h)

\* A successful run over two servers of different addresses on a cluster that
\* also holds tokens of other descriptions or policies: each server holds its
\* own token, and the two differ.
C17_Witness ==
  /\ pc = "done" /\ retErr = Nil /\ flagSetServerTokens
  /\ Len(serverAddresses) = 2 /\ serverAddresses[1] # serverAddresses[2]
  /\ Len(tokens) > 2
  /\ agentTokens[serverAddresses[1]] # agentTokens[serverAddresses[2]]
  /\ HoldsOwnToken(1) /\ HoldsOwnToken(2)

\* C18 as stated: a run called with no stored token on a cluster that was not
\* bootstrapped when the run started never ends with the token-lost error.
C18_FreshRunNeverLosesToken ==
  (pc = "done" /\ givenToken = 0 /\ rootAtStart = 0) => retErr # ErrTokenLost

\* C18 amended: a run called with no stored token on a cluster that was not
\* bootstrapped when the run started ends with the token-lost error only when
\* one of its bootstrap calls took effect and the response was lost: the
\* cluster is then bootstrapped, the secret is unwritten and the retried call
\* was answered 403. While no response has been lost the run does not end
\* with that error.
C18_TokenLostOnlyAfterLostResponse ==
  (pc \in {"bootstrap", "done"} /\ givenToken = 0 /\ rootAtStart = 0) =>
     /\ retErr = ErrTokenLost =>
           /\ lostResp /\ aclRoot # 0 /\ secret = 0 /\ bootResp = 0
           /\ Contains(lastErr, Code403)
     /\ (pc = "bootstrap" /\ aclRoot = 0) => ~lostResp

\* The first run on a fresh cluster ends with the token-lost error after a
\* bootstrap call took effect without its response being received.
C18_Witness ==
  /\ run = 1 /\ ~killed /\ pc = "done" /\ givenToken = 0 /\ rootAtStart = 0
  /\ retErr = ErrTokenLost /\ lostResp /\ aclRoot # 0 /\ secret = 0

\* C19: the retry loop of the secret write can always end by itself:
\* whenever a run is in that loop, an attempt of the write exists after which
\* the loop is left without untilSucceeds having given the write up (a loop
\* no attempt can end goes on for as long as untilSucceeds retries, however
\* few the transient failures are).
C19_SecretWriteLoopCanEnd ==
  pc = "writeSecret" => ENABLED (WriteSecret /\ pc' # "writeSecret" /\ ~gaveUp')

\* C20: a run returns a non-empty string exactly when it returns no error,
\* and the string is then the bootstrap token it was called with or, when it
\* was called with none, the one the bootstrap call returned; and a run with
\* server-token setting disabled issues no policy or token call and, once the
\* bootstrap token is known, returns it without error.
C20_TokenReturnedIffNoError ==
  /\ pc = "done" =>
        /\ retToken # 0 <=> retErr = Nil
        /\ retErr = Nil =>
              /\ givenToken # 0 => retToken = givenToken
              /\ givenToken = 0 => (retToken = bootResp /\ secret = bootResp)
  /\ ~flagSetServerTokens =>
        /\ \A c \in issued : c.call \notin ProvisioningCalls
        /\ (pc = "done" /\ ~gaveUp /\ retErr \notin {ErrTokenLost, ErrCannotReach, ErrClient})
              => (retErr = Nil /\ retToken # 0)

\* A run that bootstrapped the cluster and wrote the secret, then failed at
\* the token list and returned the empty string.
C20_Witness ==
  /\ pc = "done" /\ retErr = ErrTimeout /\ retToken = 0
  /\ givenToken = 0 /\ bootResp # 0 /\ secret = bootResp /\ bootstrapToken = bootResp
====
